---- MODULE Spec2Model ----
(***************************************************************************)
(* Roam Image Tools: the tool-injection and observation engine             *)
(* (ImageToolsService + index.tsx + settings.ts).                          *)
(*                                                                         *)
(* The repository holds two builds of the extension:                       *)
(*   rev = "settings": index.tsx of unnamed/part_001, the service of       *)
(*         unnamed/part_003 and src/settings.ts (icon size and opacity,    *)
(*         three buttons on every container);                              *)
(*   rev = "mobile":   index.tsx of README.md:53-148 and the service of    *)
(*         src/services/imageToolsService.ts:470-1114 (device dependent    *)
(*         buttons, delayed re-initialisation on mobile user agents).      *)
(* A behaviour of the model is a run of one of the two builds.             *)
(*                                                                         *)
(* The document is a tree of element nodes.  Text nodes are not modelled,  *)
(* so nextSibling and nextElementSibling coincide.                         *)
(***************************************************************************)
EXTENDS Integers, Sequences, FiniteSets, TLC

(* ------------------------------ bounds -------------------------------- *)
NImgs == 2          \* image elements the host owns
NDivs == 1          \* host wrapper elements
MaxTools == 2       \* tool containers that exist at the same time
MaxObs == 2         \* MutationObserver objects connected at the same time
MaxRecords == 1     \* added nodes the host queues for an observer in one task
MaxLoads == 1       \* onload calls in one behaviour
MaxChanges == 2     \* changes the user makes in the settings panel
MaxInputLen == 3    \* characters typed into the opacity field
MaxClicks == 2      \* copy clicks in one behaviour
MaxZooms == 1       \* zoom overlays opened in one behaviour
MaxTime == 2        \* values new Date().getTime() takes
MaxTouches == 2     \* fingers on the overlay's image wrapper at the same time
MaxTicks == 3       \* ticks of 150 ms the clock advances in one behaviour

(* ------------------------------- nodes -------------------------------- *)
\* A node is <<kind, id, buttons>>.  A tool container is named by the image its
\* click handlers hold (the img of addToolsToImage) and the buttons it was built
\* with; the host's elements have an id of their own.
None == <<"none", 0, {}>>
Body == <<"body", 0, {}>>
Article == <<"article", 0, {}>>
Imgs == {<<"img", i, {}>> : i \in 1..NImgs}
Divs == {<<"div", j, {}>> : j \in 1..NDivs}
ToolNode(img, buttons) == <<"tools", img[2], buttons>>
\* the temporary <div><img></div> the k-th copy click builds for execCommand
TempDiv(k) == <<"tempdiv", k, {}>>
TempImg(k) == <<"img", NImgs + k, {}>>
TempDivs == {TempDiv(k) : k \in 1..MaxClicks}
TempImgs == {TempImg(k) : k \in 1..MaxClicks}
\* the zoom overlay: a fixed div holding a wrapper div holding the enlarged img
Overlay(k) == <<"overlay", k, {}>>
Wrapper(k) == <<"wrapper", k, {}>>
OverlayImg(k) == <<"img", NImgs + MaxClicks + k, {}>>
Overlays == {Overlay(k) : k \in 1..MaxZooms}
Wrappers == {Wrapper(k) : k \in 1..MaxZooms}
OverlayImgs == {OverlayImg(k) : k \in 1..MaxZooms}
HostParents == {Body, Article} \cup Divs
Parents == HostParents \cup TempDivs \cup Overlays \cup Wrappers
Positions == 0..(NImgs + NDivs + MaxTools + MaxZooms + 1)
HostNodes == Imgs \cup Divs
\* every img element there can be
AllImgs == Imgs \cup TempImgs \cup OverlayImgs
ObsIds == 1..MaxObs
NoObs == 0
Revs == {"settings", "mobile"}

VARIABLES
  rev,                 \* which build runs
  uaMobile,            \* navigator.userAgent matches iPhone|iPad|iPod|Android
  narrow,              \* window.matchMedia("(max-width: 768px)").matches
  page,                \* the document and the browser's observer registry
  imageToolsObserver,  \* index.tsx: let imageToolsObserver
  styles,              \* <style id="image-tools-styles"> elements in <head>
  listeners,           \* listeners on window for imageTools:settings:changed
  command,             \* "Reinitialize Image Tools" is in the command palette
  hostLoaded,          \* the host has called onload and not yet onunload
  panelPending,        \* onload calls suspended at await panel.create(...)
  timer1,              \* pending 500 ms timers of onload
  timer2,              \* pending 2000 ms timers
  loads,               \* onload calls so far
  iconSize,            \* settings.ts: export let iconSize
  iconOpacity,         \* settings.ts: export let iconOpacity (a string)
  savedIconSize,       \* extensionAPI.settings "icon-size" ("" when not set)
  savedIconOpacity,    \* extensionAPI.settings "icon-opacity" (<<>> when not set)
  sigPending,          \* settings.set promises whose .then has not run yet
  changes,             \* panel changes so far
  copy,                \* the copy click in flight: where it is suspended, its image,
                       \* what the platform will answer, what it has done so far
  clipboard,           \* what the last copy click has put on the clipboard
  errors,              \* exceptions and rejections of the last copy click nothing caught
  button,              \* the copy button of each image's container: what it shows and
                       \* the revert timers of showCopySuccess that are pending
  zooms,               \* zoom overlays opened so far
  download,            \* the last download a save click has triggered
  keyHandlers,         \* the overlays whose keydown handler is registered on document
  overlayErrors,       \* exceptions thrown by the overlay's handlers, which nothing catches
  touch,               \* the touch and zoom state each overlay's handlers close over
  clock,               \* new Date().getTime(), in ticks of 150 ms
  brittle              \* the images on which a step of addToolsToImage throws

settingsVars == <<iconSize, iconOpacity, savedIconSize, savedIconOpacity, sigPending, changes>>

copyVars == <<copy, clipboard, errors>>

clickVars == <<button, zooms, download, keyHandlers, overlayErrors, touch, clock>>

vars == <<rev, uaMobile, narrow, page, imageToolsObserver, styles, listeners,
          command, hostLoaded, panelPending, timer1, timer2, loads, settingsVars, copyVars, clickVars, brittle>>

(* ------------------------------ sequences ----------------------------- *)
Range(s) == {s[x] : x \in DOMAIN s}
IndexOf(s, n) == CHOOSE x \in DOMAIN s : s[x] = n
InsertAt(s, pos, n) == SubSeq(s, 1, pos) \o <<n>> \o SubSeq(s, pos + 1, Len(s))
RemoveAt(s, x) == SubSeq(s, 1, x - 1) \o SubSeq(s, x + 1, Len(s))
Without(s, n) == IF n \in Range(s) THEN RemoveAt(s, IndexOf(s, n)) ELSE s
Min(S) == CHOOSE x \in S : \A y \in S : x <= y

(* ------------------------------ the DOM ------------------------------- *)
\* a test for IMG that takes a tool container for an image as well
IsImg_OrTools(n) == n[1] \in {"img", "tools"}

\* element.tagName === "IMG"
IsImg(n) == n[1] = "img"

\* element.classList.contains("roam-image-tools")
hasToolsClass(n) == n[1] = "tools"

\* node.parentElement
parentElement(kids, n) ==
  IF \E p \in Parents : n \in Range(kids[p])
  THEN CHOOSE p \in Parents : n \in Range(kids[p])
  ELSE None

\* node.nextElementSibling
nextElementSibling(kids, n) ==
  LET p == parentElement(kids, n) IN
  IF p = None THEN None
  ELSE LET x == IndexOf(kids[p], n) IN
       IF x < Len(kids[p]) THEN kids[p][x + 1] ELSE None

\* node.isConnected: the node is in the document
RECURSIVE isConnected(_, _)
isConnected(kids, n) ==
  IF n = Body THEN TRUE
  ELSE LET p == parentElement(kids, n) IN
       IF p = None THEN FALSE ELSE isConnected(kids, p)

\* the images among the nodes of s and their descendants, in document order
RECURSIVE ImgsInSeq(_, _)
ImgsInSeq(kids, s) ==
  IF s = <<>> THEN <<>>
  ELSE (IF IsImg(Head(s)) THEN <<Head(s)>>
        ELSE IF Head(s) \in Parents THEN ImgsInSeq(kids, kids[Head(s)])
        ELSE <<>>) \o ImgsInSeq(kids, Tail(s))

\* element.querySelectorAll("img")
querySelectorAllImg(kids, n) ==
  IF n \in Parents THEN ImgsInSeq(kids, kids[n]) ELSE <<>>

\* the subtree of n, n included
RECURSIVE Subtree(_, _)
Subtree(kids, n) ==
  {n} \cup (IF n \in Parents
            THEN UNION {Subtree(kids, kids[n][x]) : x \in DOMAIN kids[n]}
            ELSE {})

\* getComputedStyle(el).position: empty for an element outside the document
computedPosition(D, p) == IF isConnected(D.kids, p) THEN D.position[p] ELSE ""

\* a childList record reaches every observer connected to document.body
\* (observe(document.body, {childList: true, subtree: true})) when the
\* parent the node is added to is in the document
QueueRecord(D, parent, n) ==
  IF isConnected(D.kids, parent)
  THEN [D EXCEPT !.records = [o \in ObsIds |->
                    IF o \in D.connected THEN Append(@[o], n) ELSE @[o]]]
  ELSE D

\* the tool containers that exist, in the document or in a detached subtree
ToolSlots(kids) == {<<p, x>> \in Parents \X Positions : x \in DOMAIN kids[p] /\ hasToolsClass(kids[p][x])}
ToolCount(kids) == Cardinality(ToolSlots(kids))

\* the device test of addToolsToImage the wrong way round
ToolButtons_Swapped ==
  IF rev = "settings" THEN {"zoom", "copy", "save"}
  ELSE IF narrow THEN {"copy"} ELSE {"zoom"}

\* the buttons addToolsToImage puts into a new container
ToolButtons ==
  IF rev = "settings" THEN {"zoom", "copy", "save"}
  ELSE IF narrow THEN {"zoom"} ELSE {"copy"}

\* the container inserted as the first child of the parent
insertToolsContainer_Prepend(D, parent, img) ==
  IF img \in brittle THEN [D EXCEPT !.threw = TRUE]
  ELSE IF ToolCount(D.kids) >= MaxTools THEN [D EXCEPT !.full = TRUE]
  ELSE LET t == ToolNode(img, ToolButtons)
           D1 == [D EXCEPT
                   !.kids[parent] = InsertAt(@, 0, t),
                   !.effects = Append(@, <<"insert", t>>)]
       IN QueueRecord(D1, parent, t)

\* createElement("div") ... parent.insertBefore(toolsContainer, img.nextSibling);
\* on a brittle image the step throws
insertToolsContainer(D, parent, img) ==
  IF img \in brittle THEN [D EXCEPT !.threw = TRUE]
  ELSE IF ToolCount(D.kids) >= MaxTools THEN [D EXCEPT !.full = TRUE]
  ELSE LET t == ToolNode(img, ToolButtons)
           D1 == [D EXCEPT
                   !.kids[parent] = InsertAt(@, IndexOf(@, img), t),
                   !.effects = Append(@, <<"insert", t>>)]
       IN QueueRecord(D1, parent, t)

\* addToolsToImage without its check of the next element sibling
addToolsToImage_NoSkip(D, img) ==
  LET D1 == [D EXCEPT !.effects = Append(@, <<"crossOrigin", img>>)]
      parent == parentElement(D.kids, img)
  IN IF parent = None THEN D1
     ELSE LET D2 == IF computedPosition(D1, parent) = "static"
                    THEN [D1 EXCEPT !.position[parent] = "relative",
                                    !.effects = Append(@, <<"position", parent>>)]
                    ELSE D1
          IN insertToolsContainer(D2, parent, img)

\* addToolsToImage replacing a container whose buttons belong to the other
\* device class
addToolsToImage_Refresh(D, img) ==
  LET sib == nextElementSibling(D.kids, img)
      parent == parentElement(D.kids, img)
  IN IF hasToolsClass(sib)
     THEN IF sib[3] = ToolButtons THEN D
          ELSE [D EXCEPT !.kids[parent] =
                  [x \in DOMAIN @ |-> IF @[x] = sib THEN ToolNode(img, ToolButtons) ELSE @[x]]]
     ELSE LET D1 == [D EXCEPT !.effects = Append(@, <<"crossOrigin", img>>)]
          IN IF parent = None THEN D1
             ELSE LET D2 == IF computedPosition(D1, parent) = "static"
                            THEN [D1 EXCEPT !.position[parent] = "relative",
                                            !.effects = Append(@, <<"position", parent>>)]
                            ELSE D1
                  IN insertToolsContainer(D2, parent, img)

\* ImageToolsService.addToolsToImage
addToolsToImage(D, img) ==
  IF hasToolsClass(nextElementSibling(D.kids, img)) THEN D
  ELSE LET D1 == [D EXCEPT !.effects = Append(@, <<"crossOrigin", img>>)]
           parent == parentElement(D.kids, img)
       IN IF parent = None THEN D1
          ELSE LET D2 == IF computedPosition(D1, parent) = "static"
                         THEN [D1 EXCEPT !.position[parent] = "relative",
                                         !.effects = Append(@, <<"position", parent>>)]
                         ELSE D1
               IN insertToolsContainer(D2, parent, img)

\* images.forEach(img => this.addToolsToImage(img)): an exception ends the loop
RECURSIVE addToolsToEach(_, _)
addToolsToEach(D, imgs) ==
  IF imgs = <<>> \/ D.threw THEN D
  ELSE addToolsToEach(addToolsToImage(D, Head(imgs)), Tail(imgs))

\* a scan that stops after the first image
addToolsToImages_FirstOnly(D) ==
  LET imgs == IF isConnected(D.kids, Article)
              THEN querySelectorAllImg(D.kids, Article) ELSE <<>>
  IN addToolsToEach(D, SubSeq(imgs, 1, Min({1, Len(imgs)})))

\* ImageToolsService.addToolsToImages: document.querySelectorAll(".roam-article img")
addToolsToImages(D) ==
  addToolsToEach(D, IF isConnected(D.kids, Article)
                    THEN querySelectorAllImg(D.kids, Article) ELSE <<>>)

\* the callback of createImageObserver for one added node
RECURSIVE observeEach(_, _)
observeEach(D, imgs) ==
  IF imgs = <<>> \/ D.threw THEN D
  ELSE observeEach(
         IF ~hasToolsClass(nextElementSibling(D.kids, Head(imgs)))
         THEN addToolsToImage(D, Head(imgs)) ELSE D,
         Tail(imgs))

\* a callback that looks at the added node only, not at its descendants
observeAddedNode_DirectOnly(D, n) ==
  observeEach(D, IF IsImg(n) THEN <<n>> ELSE <<>>)

\* a callback that rescans the whole document for every added node
observeAddedNode_WholeDocument(D, n) ==
  observeEach(D, querySelectorAllImg(D.kids, Body))

observeAddedNode(D, n) ==
  observeEach(D, IF IsImg(n) THEN <<n>> ELSE querySelectorAllImg(D.kids, n))

\* the callback of createImageObserver for a batch of records
RECURSIVE observerCallback(_, _)
observerCallback(D, batch) ==
  IF batch = <<>> \/ D.threw THEN D
  ELSE observerCallback(observeAddedNode(D, Head(batch)), Tail(batch))

\* observer.disconnect(): the observer stops and its queued records are dropped
disconnect(D, o) ==
  [D EXCEPT !.connected = @ \ {o}, !.records[o] = <<>>]

\* new MutationObserver(...); observer.observe(document.body, ...)
FreshObs(D) == Min(ObsIds \ D.connected)
createImageObserver(D, o) == [D EXCEPT !.connected = @ \cup {o}]

\* removeAllImageTools with the selector ".roam-article .roam-image-tools"
removeAllImageTools_ArticleOnly(D) ==
  [D EXCEPT !.kids = [p \in Parents |->
                        IF isConnected(D.kids, p) /\ p \in Subtree(D.kids, Article)
                        THEN SelectSeq(@[p], LAMBDA n : ~hasToolsClass(n))
                        ELSE @[p]]]

\* ImageToolsService.removeAllImageTools: querySelectorAll(".roam-image-tools")
\* finds the containers that are in the document
removeAllImageTools(D) ==
  [D EXCEPT !.kids = [p \in Parents |->
                        IF isConnected(D.kids, p)
                        THEN SelectSeq(@[p], LAMBDA n : ~hasToolsClass(n))
                        ELSE @[p]]]

(* ------------------------------ styles -------------------------------- *)
\* Strings that are parsed are sequences of one-character strings.
Chars == {"0", "1", "5", "-", "a"}
Digits == {"0", "1", "2", "3", "4", "5", "6", "7", "8", "9"}
DigitVal(c) == CHOOSE d \in 0..9 : <<"0", "1", "2", "3", "4", "5", "6", "7", "8", "9">>[d + 1] = c
DigitChar(d) == <<"0", "1", "2", "3", "4", "5", "6", "7", "8", "9">>[d + 1]

\* the leading digits of s
RECURSIVE DigitsPrefix(_)
DigitsPrefix(s) ==
  IF s # <<>> /\ Head(s) \in Digits THEN <<Head(s)>> \o DigitsPrefix(Tail(s)) ELSE <<>>

RECURSIVE DigitsValue(_)
DigitsValue(ds) ==
  IF ds = <<>> THEN 0 ELSE 10 * DigitsValue(SubSeq(ds, 1, Len(ds) - 1)) + DigitVal(ds[Len(ds)])

NaN == [nan |-> TRUE, val |-> 0]
Num(v) == [nan |-> FALSE, val |-> v]

\* JavaScript parseInt(s): an optional sign, then the leading digits; NaN without one
parseInt(s) ==
  LET neg == s # <<>> /\ Head(s) = "-"
      body == IF s # <<>> /\ Head(s) \in {"-", "+"} THEN Tail(s) ELSE s
      ds == DigitsPrefix(body)
  IN IF ds = <<>> THEN NaN
     ELSE Num(IF neg THEN 0 - DigitsValue(ds) ELSE DigitsValue(ds))

\* Number.prototype.toString of a natural number
RECURSIVE toString(_)
toString(n) ==
  IF n < 10 THEN <<DigitChar(n)>> ELSE toString(n \div 10) \o <<DigitChar(n % 10)>>

Max(a, b) == IF a >= b THEN a ELSE b
MinOf(a, b) == IF a <= b THEN a ELSE b

DEFAULT_ICON_SIZE == "medium"
DEFAULT_ICON_OPACITY == <<"5", "0">>

\* settings.ts: the icon-opacity onChange handler's new value of iconOpacity
clampOpacity(value) ==
  LET v == parseInt(value) IN
  IF v.nan THEN DEFAULT_ICON_OPACITY ELSE toString(MinOf(Max(v.val, 0), 100))

\* ImageToolsService.getIconSizeInPx
getIconSizeInPx(size) ==
  CASE size = "small" -> 14
    [] size = "large" -> 22
    [] OTHER -> 18

\* the button font size and the container opacity (in percent) of the style
\* block injectCustomStyles builds: from the settings in the build that has
\* them, the literals 18px and 0.5 in the other
StyleBlock(size, opacity) ==
  IF rev = "settings"
  THEN [font |-> getIconSizeInPx(size), opacity |-> parseInt(opacity)]
  ELSE [font |-> 18, opacity |-> Num(50)]

\* injectCustomStyles without the removal of the existing block
injectStyleBlock_Append(st, size, opacity) == st \o <<StyleBlock(size, opacity)>>

\* ImageToolsService.injectCustomStyles on the list of style blocks in <head>:
\* getElementById finds the first one
injectStyleBlock(st, size, opacity) ==
  (IF st # <<>> THEN Tail(st) ELSE st) \o <<StyleBlock(size, opacity)>>

\* settings.ts loadInitialSettings: saved || DEFAULT
loadedIconSize(saved) == IF saved = "" THEN DEFAULT_ICON_SIZE ELSE saved
loadedIconOpacity(saved) == IF saved = <<>> THEN DEFAULT_ICON_OPACITY ELSE saved

(* ------------------------------- copy --------------------------------- *)
\* What the platform answers to one copy click.
\*   fetch:  fetch(img.src) and response.blob() resolve, reject, or fetch throws
\*   item:   navigator.clipboard && window.ClipboardItem is "absent"; new
\*           ClipboardItem / clipboard.write "throw"; the write promise is
\*           rejected ("reject") or resolved ("ok")
\*   ctx:    canvas.getContext("2d") is not null
\*   draw:   ctx.drawImage does not throw
\*   toBlob: the callback gets a blob, gets null, or toBlob throws (tainted canvas)
\*   exec:   document.execCommand("copy") returns true
\*   text:   navigator.clipboard.writeText resolves, is rejected, or
\*           navigator.clipboard is undefined ("absent")
Caps ==
  {c \in [fetch : {"ok", "reject", "throw"}, item : {"ok", "absent", "throw", "reject"},
          ctx : BOOLEAN, draw : BOOLEAN, toBlob : {"blob", "null", "throw"},
          exec : BOOLEAN, text : {"ok", "reject", "absent"}] :
     c.text = "absent" => c.item = "absent"}

NoCaps == [fetch |-> "ok", item |-> "ok", ctx |-> TRUE, draw |-> TRUE, toBlob |-> "blob",
           exec |-> TRUE, text |-> "ok"]
NoCopy ==
  [pc |-> "idle", img |-> None, caps |-> NoCaps, fallbacks |-> 0, shown |-> 0, clicks |-> 0]

\* a copy button as addToolsToImage builds it: innerHTML, title, the class
\* copy-success, and the pending timers of showCopySuccess, each with the
\* content and title it will put back
FreshButton == [content |-> "clipboard", title |-> "Copy image", success |-> FALSE, timers |-> <<>>]

\* ImageToolsService.showCopySuccess on the button
showCopySuccessOn(b) ==
  [content |-> "check", title |-> "Copied!", success |-> TRUE,
   timers |-> Append(b.timers, [content |-> b.content, title |-> b.title])]

\* the callback of the 2000 ms timer of showCopySuccess that is due first
revertButton(b) ==
  [content |-> Head(b.timers).content, title |-> Head(b.timers).title,
   success |-> FALSE, timers |-> Tail(b.timers)]

\* ImageToolsService.showCopySuccess, as far as the click's outcome goes
showCopySuccess(c) == [c EXCEPT !.shown = @ + 1, !.pc = "done"]

\* navigator.clipboard.writeText(img.src).then(...) inside the inner catch of
\* fallbackCopyImage: a TypeError there reaches the outer catch
writeTextInCatch(c) ==
  IF c.caps.text = "absent" THEN showCopySuccess(c) ELSE [c EXCEPT !.pc = "writeText"]

\* a fallback that starts with the URL-as-text write
fallbackCopyImage_TextFirst(c) ==
  [c EXCEPT !.fallbacks = @ + 1, !.pc = "writeText"]

\* ImageToolsService.fallbackCopyImage up to its first suspension
fallbackCopyImage(c) ==
  LET c1 == [c EXCEPT !.fallbacks = @ + 1] IN
  IF ~c1.caps.ctx \/ ~c1.caps.draw THEN showCopySuccess(c1)
  ELSE IF c1.caps.toBlob = "throw" THEN writeTextInCatch(c1)
  ELSE [c1 EXCEPT !.pc = "toBlob"]

(* ----------------------------- lifecycle ------------------------------ *)
\* the effects field logs the writes of the handler that is running and the
\* threw field tells that it has thrown; they are empty and FALSE between handlers
Clean(D) == [D EXCEPT !.effects = <<>>, !.threw = FALSE]

\* initializeImageTools without the disconnect of the held observer
initializeImageTools_NoDisconnect(D, held) ==
  LET D2 == addToolsToImages(D)
      o == FreshObs(D2)
  IN IF D2.threw THEN [page |-> D2, obs |-> held]
     ELSE [page |-> createImageObserver(D2, o), obs |-> o]

\* index.tsx initializeImageTools, as a function of the page and the held
\* observer; when the scan throws, the variable keeps the observer that was
\* disconnected and no observer is created
initializeImageTools(D, held) ==
  LET D1 == IF held # NoObs THEN disconnect(D, held) ELSE D
      D2 == addToolsToImages(D1)
      o == FreshObs(D2)
  IN IF D2.threw THEN [page |-> D2, obs |-> held]
     ELSE [page |-> createImageObserver(D2, o), obs |-> o]

\* no save click has triggered a download
NoDownload == [href |-> <<>>, name |-> <<>>, tried |-> <<>>, got |-> FALSE, linkLeft |-> FALSE]

\* Scales are counted in eighths and lengths in pixels; touch distances are
\* powers of two, so every scale the handlers compute that lies within the
\* limits is a whole number of eighths, and a quotient that is not one lies
\* below the lower limit on either side of the rounding.
One == 8            \* let currentScale = 1
MinScale == 4       \* 0.5
MaxScale == 40      \* 5
PanPerEighth == 25  \* (currentScale - 1) * 200
doubleTapDelay == 2 \* 300 ms
Epoch == doubleTapDelay + 1   \* a time of day: later than doubleTapDelay after time 0
Distances == {1, 2, 4}        \* Math.hypot of two touches, in units of 100 px
Coords == {0, 1000}           \* clientX, clientY of a touch

\* the variables createAndDisplayImageOverlay declares for its handlers, the
\* transform applied to the image, the number of touches on the wrapper, and
\* the time of the latest touchstart of a single finger (0: none yet)
FreshTouch ==
  [currentScale |-> One, startScale |-> One, lastTouchDistance |-> 0,
   isDragging |-> FALSE, startX |-> 0, startY |-> 0,
   translateX |-> 0, translateY |-> 0, lastTranslateX |-> 0, lastTranslateY |-> 0,
   lastTouchTime |-> 0,
   applied |-> <<0, 0, One>>, touches |-> 0, lastSingle |-> 0]

\* values the host's settings store may hold for the extension when it starts
StoredSizes == {"", "small", "large", "huge"}
StoredOpacities == {<<>>, <<"5">>, <<"1", "5", "0">>, <<"a">>}

Init ==
  /\ rev \in Revs
  /\ uaMobile \in BOOLEAN
  /\ narrow \in BOOLEAN
  /\ (rev = "settings" => ~uaMobile)
  /\ page = [kids |-> [p \in Parents |-> IF p = Body THEN <<Article>> ELSE <<>>],
             position |-> [p \in Parents |-> IF p \in Overlays THEN "fixed"
                                             ELSE IF p \in Wrappers THEN "relative"
                                             ELSE "static"],
             connected |-> {},
             records |-> [o \in ObsIds |-> <<>>],
             effects |-> <<>>,
             full |-> FALSE,
             threw |-> FALSE]
  /\ imageToolsObserver = NoObs
  /\ styles = <<>>
  /\ listeners = 0
  /\ command = FALSE
  /\ hostLoaded = FALSE
  /\ panelPending = 0
  /\ timer1 = 0
  /\ timer2 = 0
  /\ loads = 0
  /\ iconSize = DEFAULT_ICON_SIZE
  /\ iconOpacity = DEFAULT_ICON_OPACITY
  /\ savedIconSize \in (IF rev = "settings" THEN StoredSizes ELSE {""})
  /\ savedIconOpacity \in (IF rev = "settings" THEN StoredOpacities ELSE {<<>>})
  /\ sigPending = 0
  /\ changes = 0
  /\ copy = NoCopy
  /\ clipboard = "none"
  /\ errors = {}
  /\ button = [i \in Imgs |-> FreshButton]
  /\ zooms = 0
  /\ download = NoDownload
  /\ keyHandlers = {}
  /\ overlayErrors = {}
  /\ touch = [k \in 1..MaxZooms |-> FreshTouch]
  /\ clock = Epoch
  /\ brittle \in SUBSET Imgs

\* onload from injectCustomStyles on: the styles, initializeImageTools, the
\* palette command and, on a mobile user agent, the 500 ms timer; when the
\* scan throws, the catch of onload logs it and the rest is skipped
OnloadBody(size, opacity) ==
  LET r == initializeImageTools(Clean(page), imageToolsObserver) IN
  /\ ~r.page.full
  /\ styles' = injectStyleBlock(styles, size, opacity)
  /\ listeners' = listeners + 1
  /\ page' = Clean(r.page)
  /\ imageToolsObserver' = r.obs
  /\ command' = (r.page.threw => command)
  /\ timer1' = IF ~r.page.threw /\ rev = "mobile" /\ uaMobile THEN timer1 + 1 ELSE timer1

\* the host loads the extension: onload up to its first suspension
Onload ==
  /\ ~hostLoaded
  /\ loads < MaxLoads
  /\ hostLoaded' = TRUE
  /\ loads' = loads + 1
  /\ IF rev = "settings"
     THEN /\ iconSize' = loadedIconSize(savedIconSize)
          /\ iconOpacity' = loadedIconOpacity(savedIconOpacity)
          /\ panelPending' = panelPending + 1
          /\ UNCHANGED <<page, imageToolsObserver, styles, listeners, command, timer1>>
     ELSE /\ OnloadBody(iconSize, iconOpacity)
          /\ UNCHANGED <<panelPending, iconSize, iconOpacity>>
  /\ UNCHANGED <<rev, uaMobile, narrow, timer2, savedIconSize, savedIconOpacity,
                 sigPending, changes, copyVars, clickVars, brittle>>

\* onload resumes after await extensionAPI.settings.panel.create(...)
OnloadResume ==
  /\ panelPending > 0
  /\ panelPending' = panelPending - 1
  /\ OnloadBody(iconSize, iconOpacity)
  /\ UNCHANGED <<rev, uaMobile, narrow, hostLoaded, timer2, loads, settingsVars, copyVars, clickVars, brittle>>

\* the calls of onload that go to the host or the platform and may throw:
\* settings.panel.create, injectCustomStyles (document.head), createImageObserver
\* (new MutationObserver, observe), ui.commandPalette.addCommand
FaultPoints == {"panel", "styles", "observer", "command"}

\* onload from the await on, when the call at f throws: what ran before f has
\* happened, the catch of onload logs the exception and the rest is skipped
OnloadBodyThrows(size, opacity, f) ==
  LET r == initializeImageTools(Clean(page), imageToolsObserver)
      scanned == addToolsToImages(IF imageToolsObserver # NoObs
                                  THEN disconnect(Clean(page), imageToolsObserver)
                                  ELSE Clean(page))
  IN /\ ~r.page.full
     /\ ~r.page.threw
     /\ IF f \in {"panel", "styles"}
        THEN UNCHANGED <<styles, listeners, page, imageToolsObserver>>
        ELSE /\ styles' = injectStyleBlock(styles, size, opacity)
             /\ listeners' = listeners + 1
             /\ IF f = "observer"
                THEN /\ page' = Clean(scanned)
                     /\ UNCHANGED imageToolsObserver
                ELSE /\ page' = Clean(r.page)
                     /\ imageToolsObserver' = r.obs
     /\ UNCHANGED <<command, timer1>>

\* onload runs into an exception of a host call: in the build with the
\* settings panel after the await, in the other build at once
OnloadThrows(f) ==
  /\ IF rev = "settings"
     THEN /\ panelPending > 0
          /\ panelPending' = panelPending - 1
          /\ UNCHANGED <<hostLoaded, loads>>
     ELSE /\ f # "panel"
          /\ ~hostLoaded
          /\ loads < MaxLoads
          /\ hostLoaded' = TRUE
          /\ loads' = loads + 1
          /\ UNCHANGED panelPending
  /\ OnloadBodyThrows(iconSize, iconOpacity, f)
  /\ UNCHANGED <<rev, uaMobile, narrow, timer2, settingsVars, copyVars, clickVars, brittle>>

\* the host unloads the extension: it drops the extension's palette commands
\* and settings panel and calls onunload; the buttons go with the containers,
\* and a container attached later has buttons of its own
Onunload ==
  /\ hostLoaded' = FALSE
  /\ command' = FALSE
  /\ page' = removeAllImageTools(
               IF imageToolsObserver # NoObs
               THEN disconnect(Clean(page), imageToolsObserver) ELSE Clean(page))
  /\ imageToolsObserver' = NoObs
  /\ styles' = IF styles # <<>> THEN Tail(styles) ELSE styles
  /\ button' = [i \in Imgs |-> FreshButton]
  /\ UNCHANGED <<rev, uaMobile, narrow, listeners, panelPending, timer1, timer2, loads,
                 settingsVars, copyVars, zooms, download, keyHandlers, overlayErrors,
                 touch, clock, brittle>>

\* a handler that only runs initializeImageTools
RunInitialize ==
  LET r == initializeImageTools(Clean(page), imageToolsObserver) IN
  /\ ~r.page.full
  /\ page' = Clean(r.page)
  /\ imageToolsObserver' = r.obs

\* the user runs the command "Reinitialize Image Tools"
Reinitialize ==
  /\ command
  /\ RunInitialize
  /\ UNCHANGED <<rev, uaMobile, narrow, styles, listeners, command, hostLoaded,
                 panelPending, timer1, timer2, loads, settingsVars, copyVars, clickVars, brittle>>

\* the 500 ms timer of onload fires and starts the 2000 ms timer
Timer1 ==
  /\ timer1 > 0
  /\ RunInitialize
  /\ timer1' = timer1 - 1
  /\ timer2' = timer2 + 1
  /\ UNCHANGED <<rev, uaMobile, narrow, styles, listeners, command, hostLoaded,
                 panelPending, loads, settingsVars, copyVars, clickVars, brittle>>

\* the 2000 ms timer fires
Timer2 ==
  /\ timer2 > 0
  /\ RunInitialize
  /\ timer2' = timer2 - 1
  /\ UNCHANGED <<rev, uaMobile, narrow, styles, listeners, command, hostLoaded,
                 panelPending, timer1, loads, settingsVars, copyVars, clickVars, brittle>>

\* the browser delivers the queued records to a connected observer
ObserverCallback(o) ==
  /\ o \in page.connected
  /\ page.records[o] # <<>>
  /\ LET D == observerCallback([Clean(page) EXCEPT !.records[o] = <<>>], page.records[o])
     IN /\ ~D.full
        /\ page' = Clean(D)
  /\ UNCHANGED <<rev, uaMobile, narrow, imageToolsObserver, styles, listeners, command,
                 hostLoaded, panelPending, timer1, timer2, loads, settingsVars, copyVars, clickVars, brittle>>

(* ------------------------------ settings ------------------------------ *)
\* what the user can type into the opacity field
Inputs == UNION {[1..n -> Chars] : n \in 0..MaxInputLen}
\* inputs of each kind: empty, in range, above 100, negative, not a number,
\* a number followed by a letter
TypedOpacities ==
  {v \in {<<>>, <<"5">>, <<"1", "5", "0">>, <<"-", "1">>, <<"a">>, <<"1", "a">>} :
     Len(v) <= MaxInputLen}
SizeItems == {"small", "medium", "large"}

SettingsFrame ==
  UNCHANGED <<rev, uaMobile, narrow, page, imageToolsObserver, command, hostLoaded,
              panelPending, timer1, timer2, loads, copyVars, clickVars, brittle>>

\* settings.ts: onChange of the icon-size select; settings.set stores the value
\* and its promise resolves later
ChangeIconSize(v) ==
  /\ rev = "settings"
  /\ hostLoaded
  /\ changes < MaxChanges
  /\ changes' = changes + 1
  /\ iconSize' = v
  /\ savedIconSize' = v
  /\ sigPending' = sigPending + 1
  /\ UNCHANGED <<iconOpacity, savedIconOpacity, styles, listeners>>
  /\ SettingsFrame

\* settings.ts: onChange of the icon-opacity input
ChangeIconOpacity(v) ==
  /\ rev = "settings"
  /\ hostLoaded
  /\ changes < MaxChanges
  /\ changes' = changes + 1
  /\ IF v = <<>>
     THEN UNCHANGED <<iconOpacity, savedIconOpacity, sigPending>>
     ELSE /\ iconOpacity' = clampOpacity(v)
          /\ savedIconOpacity' = clampOpacity(v)
          /\ sigPending' = sigPending + 1
  /\ UNCHANGED <<iconSize, savedIconSize, styles, listeners>>
  /\ SettingsFrame

\* listeners that do not rebuild the style block
injectTimes_None(st, n, size, opacity) == st

\* n runs of injectCustomStyles in a row
RECURSIVE injectTimes(_, _, _, _)
injectTimes(st, n, size, opacity) ==
  IF n = 0 THEN st ELSE injectTimes(injectStyleBlock(st, size, opacity), n - 1, size, opacity)

\* the .then of a settings.set promise dispatches imageTools:settings:changed:
\* every listener registered so far runs injectCustomStyles, which registers
\* one more listener
DispatchSettingsChanged ==
  /\ sigPending > 0
  /\ sigPending' = sigPending - 1
  /\ styles' = injectTimes(styles, listeners, iconSize, iconOpacity)
  /\ listeners' = listeners + listeners
  /\ UNCHANGED <<iconSize, iconOpacity, savedIconSize, savedIconOpacity, changes>>
  /\ SettingsFrame

(* ------------------------------ the host ------------------------------ *)
HostFrame ==
  UNCHANGED <<rev, uaMobile, narrow, imageToolsObserver, styles, listeners, command,
              hostLoaded, panelPending, timer1, timer2, loads, settingsVars, copyVars, clickVars, brittle>>

RecordsRoom(D) == \A o \in D.connected : Len(D.records[o]) < MaxRecords

\* the host inserts a detached element (with its subtree) into p, as its first
\* child (insertBefore(n, p.firstChild)) or as its last (appendChild(n)); its
\* wrapper blocks are children of the article
HostInsert(n, p, pos) ==
  /\ p \in HostParents
  /\ parentElement(page.kids, n) = None
  /\ p \notin Subtree(page.kids, n)
  /\ n \in Divs => p = Article
  /\ pos \in {0, Len(page.kids[p])}
  /\ RecordsRoom(page)
  /\ page' = QueueRecord([Clean(page) EXCEPT !.kids[p] = InsertAt(@, pos, n)], p, n)
  /\ HostFrame

\* the host removes an element (with its subtree) from its parent
HostRemove(n) ==
  /\ parentElement(page.kids, n) # None
  /\ page' = [Clean(page) EXCEPT !.kids[parentElement(page.kids, n)] = Without(@, n)]
  /\ HostFrame

\* the viewport crosses the 768px threshold
Resize ==
  /\ narrow' = ~narrow
  /\ UNCHANGED <<rev, uaMobile, page, imageToolsObserver, styles, listeners, command,
                 hostLoaded, panelPending, timer1, timer2, loads, settingsVars, copyVars, clickVars, brittle>>

(* --------------------------- the copy click --------------------------- *)
CopyFrame ==
  UNCHANGED <<rev, uaMobile, narrow, imageToolsObserver, styles, listeners, command,
              hostLoaded, panelPending, timer1, timer2, loads, settingsVars>>

\* a fallback that rescans the document after it has used its temporary div
appendAndRemoveTempDiv_Rescan(D, k) ==
  LET D1 == [D EXCEPT !.kids[TempDiv(k)] = <<TempImg(k)>>, !.kids[Body] = Append(@, TempDiv(k))]
      D2 == QueueRecord(D1, Body, TempDiv(k))
  IN addToolsToImages([D2 EXCEPT !.kids[Body] = Without(@, TempDiv(k))])

\* div.appendChild(tempImg); document.body.appendChild(div); ...
\* document.body.removeChild(div): the div is out of the document again when
\* the callback returns, and the record of its insertion is queued
appendAndRemoveTempDiv(D, k) ==
  LET D1 == [D EXCEPT !.kids[TempDiv(k)] = <<TempImg(k)>>, !.kids[Body] = Append(@, TempDiv(k))]
      D2 == QueueRecord(D1, Body, TempDiv(k))
  IN [D2 EXCEPT !.kids[Body] = Without(@, TempDiv(k))]

\* the nodes that are in the document
RECURSIVE NodesInSeq(_, _)
NodesInSeq(kids, s) ==
  IF s = <<>> THEN {}
  ELSE {Head(s)} \cup (IF Head(s) \in Parents THEN NodesInSeq(kids, kids[Head(s)]) ELSE {})
       \cup NodesInSeq(kids, Tail(s))
InDocument(kids) == NodesInSeq(kids, <<Body>>)

ClickFrame == UNCHANGED <<zooms, download, keyHandlers, overlayErrors, touch, clock, brittle>>

\* the button of the click shows the success when the handler has called
\* showCopySuccess (shown has grown from n)
ButtonAfter(n) ==
  button' = IF copy'.shown > n
            THEN [button EXCEPT ![copy'.img] = showCopySuccessOn(@)]
            ELSE button

\* the user clicks the copy button of a container built for image i:
\* copyImageToClipboard up to its first suspension
CopyClick(i, caps) ==
  /\ rev = "mobile"
  /\ copy.pc \in {"idle", "done"}
  /\ copy.clicks < MaxClicks
  /\ ToolNode(i, {"copy"}) \in InDocument(page.kids)
  /\ LET c == [pc |-> "fetching", img |-> i, caps |-> caps, fallbacks |-> 0, shown |-> 0,
               clicks |-> copy.clicks + 1]
     IN copy' = IF caps.fetch = "throw" THEN fallbackCopyImage(c) ELSE c
  /\ clipboard' = "none"
  /\ errors' = {}
  /\ ButtonAfter(0)
  /\ ClickFrame
  /\ UNCHANGED page
  /\ CopyFrame

\* the first copy click of a behaviour, on any platform
FirstCopyClick(i, caps) == copy.clicks = 0 /\ CopyClick(i, caps)

\* fetch(img.src).then(response => response.blob()) settles
FetchSettles ==
  /\ copy.pc = "fetching"
  /\ copy' = IF copy.caps.fetch = "reject" \/ copy.caps.item \in {"absent", "throw"}
             THEN fallbackCopyImage(copy)
             ELSE [copy EXCEPT !.pc = "writing"]
  /\ ButtonAfter(copy.shown)
  /\ ClickFrame
  /\ UNCHANGED <<page, clipboard, errors>>
  /\ CopyFrame

\* navigator.clipboard.write([item]) settles
WriteSettles ==
  /\ copy.pc = "writing"
  /\ IF copy.caps.item = "ok"
     THEN /\ copy' = showCopySuccess(copy)
          /\ clipboard' = "image"
     ELSE /\ copy' = fallbackCopyImage(copy)
          /\ UNCHANGED clipboard
  /\ ButtonAfter(copy.shown)
  /\ ClickFrame
  /\ UNCHANGED <<page, errors>>
  /\ CopyFrame

\* the callback of canvas.toBlob runs: nothing catches what it throws
ToBlobCallback ==
  /\ copy.pc = "toBlob"
  /\ IF copy.caps.toBlob = "null"
     THEN /\ copy' = [copy EXCEPT !.pc = "done"]
          /\ errors' = errors \cup {"uncaught"}
          /\ UNCHANGED <<page, clipboard>>
     ELSE /\ page' = appendAndRemoveTempDiv(Clean(page), copy.clicks)
          /\ IF copy.caps.exec
             THEN /\ copy' = showCopySuccess(copy)
                  /\ clipboard' = "image"
                  /\ UNCHANGED errors
             ELSE IF copy.caps.text = "absent"
             THEN /\ copy' = [copy EXCEPT !.pc = "done"]
                  /\ errors' = errors \cup {"uncaught"}
                  /\ UNCHANGED clipboard
             ELSE /\ copy' = [copy EXCEPT !.pc = "writeText"]
                  /\ UNCHANGED <<clipboard, errors>>
  /\ ButtonAfter(copy.shown)
  /\ ClickFrame
  /\ CopyFrame

\* navigator.clipboard.writeText(img.src) settles; its promise has no catch
WriteTextSettles ==
  /\ copy.pc = "writeText"
  /\ IF copy.caps.text = "ok"
     THEN /\ copy' = showCopySuccess(copy)
          /\ clipboard' = "url"
          /\ UNCHANGED errors
     ELSE /\ copy' = [copy EXCEPT !.pc = "done"]
          /\ errors' = errors \cup {"unhandled"}
          /\ UNCHANGED clipboard
  /\ ButtonAfter(copy.shown)
  /\ ClickFrame
  /\ UNCHANGED page
  /\ CopyFrame

\* the 2000 ms timer of showCopySuccess that is due first on the button fires
RevertTimer(i) ==
  /\ button[i].timers # <<>>
  /\ button' = [button EXCEPT ![i] = revertButton(@)]
  /\ UNCHANGED <<page, copyVars>>
  /\ ClickFrame
  /\ CopyFrame

(* --------------------------- the zoom click --------------------------- *)
\* createAndDisplayImageOverlay: imageWrapper.appendChild(imgElement);
\* overlay.appendChild(imageWrapper); document.body.appendChild(overlay)
appendOverlay(D, k) ==
  QueueRecord([D EXCEPT !.kids[Wrapper(k)] = <<OverlayImg(k)>>,
                        !.kids[Overlay(k)] = <<Wrapper(k)>>,
                        !.kids[Body] = Append(@, Overlay(k))],
              Body, Overlay(k))

\* the user clicks the zoom button of a container that is in the document
ZoomClick(i) ==
  /\ rev = "mobile"
  /\ zooms < MaxZooms
  /\ ToolNode(i, {"zoom"}) \in InDocument(page.kids)
  /\ page' = appendOverlay(Clean(page), zooms + 1)
  /\ zooms' = zooms + 1
  /\ keyHandlers' = keyHandlers \cup {zooms + 1}
  /\ UNCHANGED <<rev, uaMobile, narrow, imageToolsObserver, styles, listeners, command,
                 hostLoaded, panelPending, timer1, timer2, loads, settingsVars, copyVars,
                 button, download, overlayErrors, touch, clock, brittle>>

\* the user closes the overlay with its close button or a click on the
\* backdrop: document.body.removeChild(overlay); the keydown handler stays
CloseOverlay(k) ==
  /\ Overlay(k) \in Range(page.kids[Body])
  /\ page' = [Clean(page) EXCEPT !.kids[Body] = Without(@, Overlay(k))]
  /\ UNCHANGED <<rev, uaMobile, narrow, imageToolsObserver, styles, listeners, command,
                 hostLoaded, panelPending, timer1, timer2, loads, settingsVars, copyVars,
                 clickVars, brittle>>

\* the overlays whose keyHandler ends normally on Escape: removeChild finds
\* the overlay among the children of document.body
Closable(kids) == {k \in keyHandlers : Overlay(k) \in Range(kids[Body])}

\* the user presses Escape: every registered keyHandler runs
\* document.body.removeChild(overlay) and then removes itself; removeChild
\* throws NotFoundError when the overlay is not a child of body, and the
\* handler's removeEventListener is then not reached
EscapeKey ==
  /\ keyHandlers # {}
  /\ page' = [Clean(page) EXCEPT !.kids[Body] =
                 SelectSeq(@, LAMBDA n : \A k \in Closable(page.kids) : n # Overlay(k))]
  /\ keyHandlers' = keyHandlers \ Closable(page.kids)
  /\ overlayErrors' = IF keyHandlers # Closable(page.kids)
                      THEN overlayErrors \cup {"NotFoundError"} ELSE overlayErrors
  /\ UNCHANGED <<rev, uaMobile, narrow, imageToolsObserver, styles, listeners, command,
                 hostLoaded, panelPending, timer1, timer2, loads, settingsVars, copyVars,
                 button, zooms, download, touch, clock, brittle>>

(* ------------------------- the overlay's touches ---------------------- *)
\* updateTransform
updateTransform(T) ==
  LET T1 == IF T.currentScale <= One
            THEN [T EXCEPT !.translateX = 0, !.translateY = 0] ELSE T
  IN [T1 EXCEPT !.applied = <<T1.translateX, T1.translateY, T1.currentScale>>]

\* Math.min(Math.max(v, lo), hi)
Clamp(v, lo, hi) == MinOf(Max(v, lo), hi)

\* the touchstart handler with n touches on the screen, d apart when there
\* are two, the first one at (x, y)
touchstart(T, now, n, d, x, y) ==
  IF now - T.lastTouchTime < doubleTapDelay /\ n = 1
  THEN [updateTransform([T EXCEPT !.currentScale = One, !.translateX = 0, !.translateY = 0])
          EXCEPT !.lastTouchTime = 0]
  ELSE LET T1 == [T EXCEPT !.lastTouchTime = now] IN
       IF n = 2
       THEN [T1 EXCEPT !.lastTouchDistance = d, !.startScale = T.currentScale]
       ELSE IF n = 1 /\ T.currentScale > One
       THEN [T1 EXCEPT !.isDragging = TRUE, !.startX = x, !.startY = y,
                       !.lastTranslateX = T.translateX, !.lastTranslateY = T.translateY]
       ELSE T1

\* the touchmove handler
touchmove(T, n, d, x, y) ==
  IF n = 2
  THEN IF T.lastTouchDistance > 0
       THEN updateTransform([T EXCEPT !.currentScale =
              Clamp((T.startScale * d) \div T.lastTouchDistance, MinScale, MaxScale)])
       ELSE T
  ELSE IF n = 1 /\ T.isDragging
  THEN LET maxPan == (T.currentScale - One) * PanPerEighth
       IN updateTransform([T EXCEPT
            !.translateX = Clamp(T.lastTranslateX + (x - T.startX), -maxPan, maxPan),
            !.translateY = Clamp(T.lastTranslateY + (y - T.startY), -maxPan, maxPan)])
  ELSE T

\* the touchend handler
touchend(T) == [T EXCEPT !.isDragging = FALSE, !.lastTouchDistance = 0]

TouchFrame ==
  UNCHANGED <<rev, uaMobile, narrow, page, imageToolsObserver, styles, listeners, command,
              hostLoaded, panelPending, timer1, timer2, loads, settingsVars, copyVars,
              button, zooms, download, keyHandlers, overlayErrors, brittle>>

\* the overlay k is displayed
Displayed(k) == k <= zooms /\ Overlay(k) \in Range(page.kids[Body])

\* fingers come down on the image wrapper of overlay k: n touches are then
\* on it
TouchStart(k, n, d, x, y) ==
  /\ Displayed(k)
  /\ touch[k].touches < n
  /\ touch' = [touch EXCEPT ![k] =
       [touchstart(@, clock, n, d, x, y) EXCEPT
          !.touches = n,
          !.lastSingle = IF n = 1 THEN clock ELSE @]]
  /\ UNCHANGED clock
  /\ TouchFrame

\* a finger on the wrapper moves
TouchMove(k, d, x, y) ==
  /\ Displayed(k)
  /\ touch[k].touches > 0
  /\ touch' = [touch EXCEPT ![k] = touchmove(@, @.touches, d, x, y)]
  /\ UNCHANGED clock
  /\ TouchFrame

\* a finger leaves the wrapper
TouchEnd(k) ==
  /\ Displayed(k)
  /\ touch[k].touches > 0
  /\ touch' = [touch EXCEPT ![k] = [touchend(@) EXCEPT !.touches = @ - 1]]
  /\ UNCHANGED clock
  /\ TouchFrame

\* 150 ms pass
Tick ==
  /\ clock < Epoch + MaxTicks
  /\ clock' = clock + 1
  /\ UNCHANGED touch
  /\ TouchFrame

(* --------------------------- the save click --------------------------- *)
\* img.src: the file name of an image's source, as <<stem, extension>>
\* (a.png, b.jpg, c.png, ...)
Stems == <<"a", "b", "c", "d">>
Src(i) == <<Stems[((i[2] - 1) % Len(Stems)) + 1], IF i[2] % 2 = 1 THEN ".png" ELSE ".jpg">>

\* the a element of saveImage, appended to document.body and removed again
SaveLink == <<"a", 0, {}>>

\* "image-" + new Date().getTime() + ".png"
downloadName(t) == <<"image-", DigitChar(t), ".png">>

\* what link.click() does: the browser starts the download, it does nothing
\* (no support for the download attribute, a cross-origin source), or it throws
ClickOutcomes == {"download", "nothing", "throw"}

\* ImageToolsService.saveImage: the anchor with the download attribute, then,
\* if (!link.download), the simulated context menu; link.download is the
\* string that was just assigned.  When link.click() throws, the catch logs it
\* and the link stays in document.body.
saveImage(i, t, outcome) ==
  [href |-> Src(i),
   name |-> downloadName(t),
   tried |-> IF outcome # "throw" /\ downloadName(t) = <<>>
             THEN <<"anchor", "contextmenu">> ELSE <<"anchor">>,
   got |-> outcome = "download",
   linkLeft |-> outcome = "throw"]

\* the user clicks the save button of a container that is in the document
SaveClick(i, t, outcome) ==
  /\ rev = "settings"
  /\ ToolNode(i, {"zoom", "copy", "save"}) \in InDocument(page.kids)
  /\ RecordsRoom(page)
  /\ page' = QueueRecord(Clean(page), Body, SaveLink)
  /\ download' = saveImage(i, t, outcome)
  /\ UNCHANGED <<rev, uaMobile, narrow, imageToolsObserver, styles, listeners, command,
                 hostLoaded, panelPending, timer1, timer2, loads, settingsVars, copyVars,
                 button, zooms, keyHandlers, overlayErrors, touch, clock, brittle>>

(* --------------------------- specifications --------------------------- *)
\* every handler and every event of the environment
Next ==
  \/ Onload
  \/ OnloadResume
  \/ \E f \in FaultPoints : OnloadThrows(f)
  \/ Onunload
  \/ Reinitialize
  \/ Timer1
  \/ Timer2
  \/ \E o \in ObsIds : ObserverCallback(o)
  \/ \E v \in SizeItems : ChangeIconSize(v)
  \/ \E v \in Inputs : ChangeIconOpacity(v)
  \/ DispatchSettingsChanged
  \/ \E n \in HostNodes, p \in Parents, pos \in Positions : HostInsert(n, p, pos)
  \/ \E n \in HostNodes : HostRemove(n)
  \/ Resize
  \/ \E i \in Imgs, caps \in Caps : CopyClick(i, caps)
  \/ \E i \in AllImgs : ZoomClick(i)
  \/ \E k \in 1..MaxZooms : CloseOverlay(k)
  \/ EscapeKey
  \/ \E k \in 1..MaxZooms, n \in 1..MaxTouches, d \in Distances, x, y \in Coords :
       TouchStart(k, n, d, x, y)
  \/ \E k \in 1..MaxZooms, d \in Distances, x, y \in Coords : TouchMove(k, d, x, y)
  \/ \E k \in 1..MaxZooms : TouchEnd(k)
  \/ Tick
  \/ \E i \in AllImgs, t \in 1..MaxTime, outcome \in ClickOutcomes : SaveClick(i, t, outcome)
  \/ \E i \in Imgs : RevertTimer(i)
  \/ FetchSettles
  \/ WriteSettles
  \/ ToBlobCallback
  \/ WriteTextSettles

Spec == Init /\ [][Next]_vars

\* The document engine: the host edits the document while the extension is
\* loaded, reinitialised and unloaded.  Desktop user agent, settings store empty,
\* viewport class fixed.
InitDom == Init /\ brittle = {} /\ ~uaMobile /\ savedIconSize = "" /\ savedIconOpacity = <<>>

NextDom ==
  \/ Onload
  \/ OnloadResume
  \/ Onunload
  \/ Reinitialize
  \/ \E o \in ObsIds : ObserverCallback(o)
  \/ \E n \in HostNodes, p \in Parents, pos \in Positions : HostInsert(n, p, pos)
  \/ \E n \in HostNodes : HostRemove(n)

SpecDom == InitDom /\ [][NextDom]_vars

\* The lifecycle: onload, the command, the delayed re-initialisations and
\* onunload, while the host appends images to the article or the body and
\* resizes the viewport.
InitLife == Init /\ brittle = {} /\ savedIconSize = "" /\ savedIconOpacity = <<>>

NextLife ==
  \/ Onload
  \/ OnloadResume
  \/ Onunload
  \/ Reinitialize
  \/ Timer1
  \/ Timer2
  \/ \E o \in ObsIds : ObserverCallback(o)
  \/ \E n \in Imgs, p \in {Article, Body} : HostInsert(n, p, Len(page.kids[p]))
  \/ Resize

SpecLife == InitLife /\ [][NextLife]_vars

\* The settings: the panel, the settings store and the style block, in a
\* document without images; the user types one input of each kind.
InitSettings == Init /\ brittle = {} /\ ~uaMobile /\ ~narrow

NextSettings ==
  \/ Onload
  \/ OnloadResume
  \/ Onunload
  \/ Reinitialize
  \/ \E v \in SizeItems : ChangeIconSize(v)
  \/ \E v \in TypedOpacities : ChangeIconOpacity(v)
  \/ DispatchSettingsChanged

SpecSettings == InitSettings /\ [][NextSettings]_vars

\* Responsiveness: the build with settings; the store holds no opacity and no
\* size or "small" when the extension starts; the user changes the size and
\* types an opacity in range or above it; the command is not run; promise
\* continuations always run.
InitResponsive ==
  InitSettings /\ rev = "settings" /\ savedIconSize \in {"", "small"} /\ savedIconOpacity = <<>>

NextResponsive ==
  \/ Onload
  \/ OnloadResume
  \/ Onunload
  \/ \E v \in SizeItems : ChangeIconSize(v)
  \/ \E v \in {<<"5">>, <<"1", "5", "0">>} : ChangeIconOpacity(v)
  \/ DispatchSettingsChanged

SpecSettingsFair ==
  /\ InitResponsive
  /\ [][NextResponsive]_vars
  /\ WF_vars(DispatchSettingsChanged)
  /\ WF_vars(OnloadResume)

\* The copy click: a desktop viewport, images appended to the article, copy
\* clicks under every answer of the platform.
InitCopy == Init /\ brittle = {} /\ rev = "mobile" /\ ~uaMobile /\ ~narrow

NextCopy ==
  \/ Onload
  \/ \E o \in ObsIds : ObserverCallback(o)
  \/ \E n \in Imgs : HostInsert(n, Article, Len(page.kids[Article]))
  \/ \E i \in Imgs, caps \in Caps : FirstCopyClick(i, caps)
  \/ FetchSettles
  \/ WriteSettles
  \/ ToBlobCallback
  \/ WriteTextSettles

SpecCopy == InitCopy /\ [][NextCopy]_vars

\* The zoom overlay: the build with the device test in a narrow or a wide
\* viewport; the host appends images to the article, the user zooms and
\* closes the overlay.
InitOverlay == Init /\ brittle = {} /\ rev = "mobile" /\ ~uaMobile

NextOverlay ==
  \/ Onload
  \/ Reinitialize
  \/ Resize
  \/ \E o \in ObsIds : ObserverCallback(o)
  \/ \E n \in Imgs : HostInsert(n, Article, Len(page.kids[Article]))
  \/ \E i \in AllImgs : ZoomClick(i)
  \/ \E k \in 1..MaxZooms : CloseOverlay(k)
  \/ EscapeKey

\* Unloading while a copy is in flight: the copy click on every platform, with
\* onunload at any point.
NextUnloadCopy ==
  \/ NextCopy
  \/ Onunload

SpecUnloadCopy == InitCopy /\ [][NextUnloadCopy]_vars

SpecOverlay == InitOverlay /\ [][NextOverlay]_vars

\* The touches on the zoom overlay: a narrow viewport, the host appends
\* images to the article, the user opens the overlay and pinches, drags and
\* taps on it.
InitTouch ==
  /\ Init /\ brittle = {} /\ rev = "mobile" /\ ~uaMobile /\ narrow
  /\ savedIconSize = "" /\ savedIconOpacity = <<>>

NextTouch ==
  \/ Onload
  \/ \E o \in ObsIds : ObserverCallback(o)
  \/ \E n \in Imgs : HostInsert(n, Article, Len(page.kids[Article]))
  \/ \E i \in AllImgs : ZoomClick(i)
  \/ \E k \in 1..MaxZooms, n \in 1..MaxTouches, d \in Distances, x, y \in Coords :
       TouchStart(k, n, d, x, y)
  \/ \E k \in 1..MaxZooms, d \in Distances, x, y \in Coords : TouchMove(k, d, x, y)
  \/ \E k \in 1..MaxZooms : TouchEnd(k)
  \/ Tick

SpecTouch == InitTouch /\ [][NextTouch]_vars

\* The save button: the build with the three buttons; the host appends
\* images to the article and the user saves them.
InitSave ==
  Init /\ brittle = {} /\ rev = "settings" /\ ~narrow
       /\ savedIconSize = "" /\ savedIconOpacity = <<>>

NextSave ==
  \/ Onload
  \/ OnloadResume
  \/ Onunload
  \/ Reinitialize
  \/ \E o \in ObsIds : ObserverCallback(o)
  \/ \E n \in Imgs, p \in {Article, Body} : HostInsert(n, p, Len(page.kids[p]))
  \/ \E i \in AllImgs, t \in 1..MaxTime, outcome \in ClickOutcomes : SaveClick(i, t, outcome)

SpecSave == InitSave /\ [][NextSave]_vars

\* The copy button's success display: copy clicks that end in showCopySuccess
\* (the direct clipboard write, or the fallback without a canvas context) and
\* the revert timers, in any order.
ButtonCaps == {NoCaps, [NoCaps EXCEPT !.fetch = "throw", !.ctx = FALSE]}

InitButton == Init /\ brittle = {} /\ rev = "mobile" /\ ~uaMobile /\ ~narrow

NextButton ==
  \/ Onload
  \/ \E o \in ObsIds : ObserverCallback(o)
  \/ \E n \in Imgs : HostInsert(n, Article, Len(page.kids[Article]))
  \/ \E i \in Imgs, caps \in ButtonCaps : CopyClick(i, caps)
  \/ FetchSettles
  \/ WriteSettles
  \/ \E i \in Imgs : RevertTimer(i)

SpecButton == InitButton /\ [][NextButton]_vars

\* Exceptions: host calls of onload that throw and images on which the
\* attachment throws; the host appends images to the article or the body.
InitFault == Init /\ ~uaMobile /\ ~narrow /\ savedIconSize = "" /\ savedIconOpacity = <<>>

NextFault ==
  \/ Onload
  \/ OnloadResume
  \/ \E f \in FaultPoints : OnloadThrows(f)
  \/ Onunload
  \/ Reinitialize
  \/ \E o \in ObsIds : ObserverCallback(o)
  \/ \E n \in Imgs, p \in {Article, Body} : HostInsert(n, p, Len(page.kids[p]))

SpecFault == InitFault /\ [][NextFault]_vars

(* ----------------------------- properties ----------------------------- *)
\* the containers in the document whose handlers hold image i
OwnContainers(kids, i) ==
  {s \in ToolSlots(kids) : kids[s[1]][s[2]][2] = i[2] /\ isConnected(kids, s[1])}

\* the containers in the document
ContainersInDocument(kids) == {s \in ToolSlots(kids) : isConnected(kids, s[1])}

\* how often the container t occurs
Occurrences(kids, t) == Cardinality({s \in ToolSlots(kids) : kids[s[1]][s[2]] = t})

\* the buttons of the containers a step has added
NewButtons ==
  {page'.kids[s[1]][s[2]][3] : s \in
     {s \in ToolSlots(page'.kids) :
        Occurrences(page'.kids, page'.kids[s[1]][s[2]]) >
          Occurrences(page.kids, page'.kids[s[1]][s[2]])}}

\* C1: in every reachable state, whatever onload, the Reinitialize command, the
\* scans, the observer callbacks, onunload and the host's insertions, moves
\* and removals have done, every image has at most one tool container in the
\* document.
C1_OneContainerPerImage ==
  \A i \in Imgs : Cardinality(OwnContainers(page.kids, i)) <= 1

\* C2: addToolsToImage is idempotent for every image that has a parent
\* element: called twice in succession it leaves a tool container as the
\* image's next element sibling and has inserted exactly one unless one was
\* there, and the second call changes nothing: no crossOrigin write, no parent
\* style write, no insertion.
C2_Idempotent ==
  \A i \in Imgs :
    LET D1 == addToolsToImage(Clean(page), i)
        D2 == addToolsToImage(Clean(D1), i)
    IN (parentElement(page.kids, i) # None /\ ~D1.full) =>
         /\ hasToolsClass(nextElementSibling(D2.kids, i))
         /\ ToolCount(D2.kids) =
              ToolCount(page.kids)
                + (IF hasToolsClass(nextElementSibling(page.kids, i)) THEN 0 ELSE 1)
         /\ D2.effects = <<>>
         /\ D2 = Clean(D1)

\* an observer is about to call addToolsToImage on an image that has a parent
\* element and no container after it
C2_Witness ==
  \E o \in page.connected : \E i \in Imgs :
    /\ i \in Range(page.records[o])
    /\ parentElement(page.kids, i) # None
    /\ ~hasToolsClass(nextElementSibling(page.kids, i))
    /\ ToolCount(page.kids) < MaxTools

\* C2 as stated, for every image the observer is about to call addToolsToImage
\* on: two calls in succession leave a tool container as its next element
\* sibling.
C2_IdempotentEveryImage ==
  \A o \in page.connected : \A i \in Imgs :
    i \in Range(page.records[o]) =>
      LET D1 == addToolsToImage(Clean(page), i)
          D2 == addToolsToImage(Clean(D1), i)
      IN ~D1.full => hasToolsClass(nextElementSibling(D2.kids, i))

\* C3: at most one observer of the extension is connected at any time, and
\* once initializeImageTools has run the observer held in imageToolsObserver
\* is the one connected observer, however often it has run.
C3_SingleObserver ==
  /\ Cardinality(page.connected) <= 1
  /\ imageToolsObserver # NoObs => page.connected = {imageToolsObserver}

\* initializeImageTools has run at least twice (onload, then the 500 ms
\* timer) and one observer is connected
C3_Witness ==
  /\ timer2 > 0
  /\ hostLoaded
  /\ Cardinality(page.connected) = 1

\* C4: once onunload has run, in every later state there is no tool container
\* and no style block in the document and no observer is connected (so that
\* inserting an image attaches nothing), whatever was pending when it ran.
C4_FullTeardown ==
  (loads > 0 /\ ~hostLoaded) =>
    /\ ContainersInDocument(page.kids) = {}
    /\ styles = <<>>
    /\ page.connected = {}

\* C5: in every reachable state the document holds at most one style element
\* with id image-tools-styles, for any number of calls of injectCustomStyles
\* and any number of settings-changed signals.
C5_OneStyleBlock == Len(styles) <= 1

\* a settings-changed signal has run a listener, so injectCustomStyles has run
\* at least twice, and one block is there
C5_Witness ==
  /\ listeners >= 2
  /\ changes > 0
  /\ Len(styles) = 1

\* C6: when the callback of a connected observer has run for a batch, every
\* image that is an added node of the batch or a descendant of one, and that
\* has a parent element, has a tool container as its next element sibling; for
\* a batch that is one image the callback has inserted exactly one container
\* unless one was there.
C6_IncrementalAttachment ==
  [][\A o \in ObsIds :
       ObserverCallback(o) =>
         /\ \A n \in Range(page.records[o]) : \A i \in Subtree(page.kids, n) :
              (IsImg(i) /\ parentElement(page'.kids, i) # None) =>
                hasToolsClass(nextElementSibling(page'.kids, i))
         /\ \A i \in Imgs :
              (page.records[o] = <<i>> /\ parentElement(page.kids, i) # None) =>
                ToolCount(page'.kids) =
                  ToolCount(page.kids)
                    + (IF hasToolsClass(nextElementSibling(page.kids, i)) THEN 0 ELSE 1)]_vars

\* an image the host has put into the body, outside the article the scans
\* cover, has its container: the observer callback has attached it
C6_Witness ==
  \E i \in Imgs :
    /\ parentElement(page.kids, i) = Body
    /\ nextElementSibling(page.kids, i) = ToolNode(i, ToolButtons)
    /\ page.connected # {}

ExpectedFontPx == IF iconSize = "small" THEN 14 ELSE IF iconSize = "large" THEN 22 ELSE 18
StyleCurrent ==
  /\ styles # <<>>
  /\ styles[Len(styles)] = [font |-> ExpectedFontPx, opacity |-> parseInt(iconOpacity)]

\* C8: after a change of a setting while the extension is active the style
\* block is eventually the one the latest settings ask for (22px after a
\* change to large), without onload or the Reinitialize command running again.
C8_StyleFollowsSettings ==
  (rev = "settings" /\ hostLoaded /\ sigPending > 0) ~> StyleCurrent

\* after one onload and a change to large the block has 22px buttons
C8_Witness ==
  /\ loads = 1
  /\ changes > 0
  /\ sigPending = 0
  /\ iconSize = "large"
  /\ styles # <<>>
  /\ styles[1].font = 22

\* C9: the opacity a style block is built with is always an integer in
\* 0..100, and its button font size is 14, 18 or 22 pixels for small, medium
\* or large and 18 for any other size.
C9_OpacityInRange ==
  \A x \in DOMAIN styles :
    /\ ~styles[x].opacity.nan
    /\ styles[x].opacity.val \in 0..100
    /\ styles[x].font \in {14, 18, 22}

\* C10: a copy click never ends with an uncaught exception or an unhandled
\* rejection, whatever the platform refuses, and when no strategy has copied
\* the image and clipboard.writeText works, the image URL is on the clipboard.
C10_FallbackChain ==
  copy.pc = "done" =>
    /\ errors = {}
    /\ (clipboard # "image" /\ copy.caps.text = "ok") => clipboard = "url"

\* what a full teardown followed by a fresh activation makes of the page
TeardownThenActivate(D, held) ==
  initializeImageTools(
    removeAllImageTools(IF held # NoObs THEN disconnect(D, held) ELSE D), NoObs)

\* C11: the command "Reinitialize Image Tools" is a full teardown followed by
\* a fresh activation: afterwards the document holds the containers a scan of
\* a document without containers attaches and no others, the style block is the
\* one a fresh injection builds, and exactly one observer is connected.
C11_ReinitializeIsTeardownAndActivation ==
  [][Reinitialize =>
       LET R == TeardownThenActivate(Clean(page), imageToolsObserver) IN
       ~R.page.full =>
         /\ page'.kids = R.page.kids
         /\ Cardinality(page'.connected) = 1
         /\ styles' = injectStyleBlock(<<>>, iconSize, iconOpacity)]_vars

\* C12: onunload, called when no observer is held and no style block and no
\* tool container is in the document (onload never ran, or onunload has just
\* run), changes nothing; and every onunload leaves such a state, so that a
\* second one in a row is a no-op.
C12_OnunloadNoOp ==
  [][Onunload =>
       /\ imageToolsObserver' = NoObs
       /\ styles' = <<>>
       /\ ContainersInDocument(page'.kids) = {}
       /\ (imageToolsObserver = NoObs /\ styles = <<>>
             /\ ContainersInDocument(page.kids) = {}) =>
            (page' = page /\ styles' = styles)]_vars

\* onunload has run after an onload that had attached containers, nothing of
\* the extension is left, and images are in the document: the state in which
\* the next onunload is the second in a row
C12_Witness ==
  /\ loads > 0
  /\ ~hostLoaded
  /\ imageToolsObserver = NoObs
  /\ styles = <<>>
  /\ ContainersInDocument(page.kids) = {}
  /\ ToolCount(page.kids) = 0
  /\ \E i \in Imgs : parentElement(page.kids, i) = Article

\* a step of a handler that runs initializeImageTools, hence the scan
ScanStep == Reinitialize \/ OnloadResume \/ (rev = "mobile" /\ Onload) \/ Timer1 \/ Timer2

\* document.querySelectorAll(".roam-article img") as a set
ArticleImgs(kids) ==
  IF isConnected(kids, Article) THEN Range(querySelectorAllImg(kids, Article)) ELSE {}

\* C16: when a handler that scans has returned, every image under
\* .roam-article has a tool container as its next element sibling, and a
\* further scan, or a further initializeImageTools as the Reinitialize
\* command runs it, changes nothing in the document.
C16_ScanCompleteAndIdempotent ==
  [][ScanStep =>
       /\ \A i \in ArticleImgs(page'.kids) :
            hasToolsClass(nextElementSibling(page'.kids, i))
       /\ addToolsToImages(page') = page'
       /\ LET r == initializeImageTools(page', imageToolsObserver')
          IN r.page.kids = page'.kids /\ ~r.page.full]_vars

\* every image is in the article with a container after it and the command is
\* registered: the scans that ran had images to attach to and a further
\* Reinitialize can run
C16_Witness ==
  /\ command
  /\ \A i \in Imgs : /\ parentElement(page.kids, i) = Article
                     /\ nextElementSibling(page.kids, i) = ToolNode(i, ToolButtons)

\* the nodes a batch of records covers: the added nodes and their descendants
Covered(kids, batch) == UNION {Subtree(kids, batch[x]) : x \in DOMAIN batch}

EngineStepPages ==
  {<<Clean(page), initializeImageTools(Clean(page), imageToolsObserver).page>> : x \in {y \in {1} : ScanStep}}
  \cup {<<Clean(page), observerCallback([Clean(page) EXCEPT !.records[o] = <<>>], page.records[o])>> :
          o \in {o \in ObsIds : ObserverCallback(o)}}

\* the host's own nodes of every parent, in order
HostKids(kids) == [p \in Parents |-> SelectSeq(kids[p], LAMBDA n : ~hasToolsClass(n))]

\* the writes of a handler other than the position of an image's parent
WritesWithin(D0, D1) ==
  /\ HostKids(D1.kids) = HostKids(D0.kids)
  /\ \A e \in Range(D1.effects) :
       /\ e[1] \in {"insert", "crossOrigin", "position"}
       /\ e[1] = "crossOrigin" => IsImg(e[2])
       /\ e[1] = "insert" =>
            \E i \in AllImgs :
              /\ e[2] = ToolNode(i, ToolButtons)
              /\ nextElementSibling(D1.kids, i) = e[2]
  /\ \A p \in Parents :
       Len(D1.kids[p]) - Len(D0.kids[p]) =
         Cardinality({x \in DOMAIN D1.effects :
                        /\ D1.effects[x][1] = "insert"
                        /\ \E i \in Range(HostKids(D1.kids)[p]) : D1.effects[x][2][2] = i[2] /\ IsImg(i)})

\* C19: a handler of the engine (the scans of onload, of the command and of
\* the timers, and the observer callback) creates, removes and moves no node
\* of the host; what it writes is a tool container inserted as the next
\* sibling of an image, the crossOrigin of an image, and position: relative
\* on the parent of an image whose computed position was static.
C19_EngineWrites ==
  [][\A pp \in EngineStepPages :
       /\ WritesWithin(pp[1], pp[2])
       /\ page'.kids = pp[2].kids
       /\ \A p \in Parents :
            pp[2].position[p] # pp[1].position[p] =>
              /\ pp[1].position[p] = "static" /\ pp[2].position[p] = "relative"
              /\ \E i \in AllImgs : parentElement(pp[1].kids, i) = p
              /\ <<"position", p>> \in Range(pp[2].effects)]_vars

\* an image of the article has its container after it and the article, which
\* was statically positioned, has been given position: relative
C19_Witness ==
  /\ page.position[Article] = "relative"
  /\ \E i \in Imgs : /\ parentElement(page.kids, i) = Article
                     /\ nextElementSibling(page.kids, i) = ToolNode(i, ToolButtons)

\* C19 as stated: inserting containers and setting crossOrigin are the only
\* writes, and no other property of a host element changes.
C19_OnlyContainerAndCrossOrigin ==
  [][\A pp \in EngineStepPages :
       /\ WritesWithin(pp[1], pp[2])
       /\ \A e \in Range(pp[2].effects) : e[1] \in {"insert", "crossOrigin"}
       /\ pp[2].position = pp[1].position]_vars

\* C18: every tool container in the document has been attached under the
\* document view root (.roam-article): no container is the sibling of an image
\* that sits elsewhere under document.body, such as the image of the zoom
\* overlay.
C18_ContainersOnlyInDocumentView ==
  \A s \in ContainersInDocument(page.kids) : s[1] \in Subtree(page.kids, Article)

\* C13: the download a save click triggers has a file name derived from the
\* image's source: the name of a.png's download holds the stem "a".
C13_FilenameFromSource ==
  download # NoDownload => download.href[1] \in Range(download.name)

\* C20: a copy button with no revert timer pending shows its original icon
\* and title and has no copy-success class, however many successful copy
\* clicks it has had and however close together they were.
C20_ButtonReverts ==
  \A i \in Imgs : button[i].timers = <<>> => button[i] = FreshButton

\* an onload whose try block has thrown: a host call threw, or the scan did
OnloadCaught ==
  \/ \E f \in FaultPoints : OnloadThrows(f)
  \/ /\ OnloadResume \/ (rev = "mobile" /\ Onload)
     /\ initializeImageTools(Clean(page), imageToolsObserver).page.threw

\* C14: when a call inside onload's try block throws, the engine is left
\* inert: no observer is connected and no timer is pending, so that nothing is
\* attached any more until a reinitialization.
C14_FailedOnloadLeavesInert ==
  [][OnloadCaught => page'.connected = {} /\ timer1' = 0 /\ timer2' = 0]_vars

\* C15: a scan gives a container to every image under .roam-article except
\* those on which the attachment throws, and an observer callback to every
\* image of its batch that has a parent except those: a failure on one image
\* skips that image only.
C15_FailureSkipsOnlyThatImage ==
  [][/\ ScanStep =>
          \A i \in ArticleImgs(page'.kids) \ brittle :
            hasToolsClass(nextElementSibling(page'.kids, i))
     /\ \A o \in ObsIds : ObserverCallback(o) =>
          \A i \in (Covered(page.kids, page.records[o]) \cap Imgs) \ brittle :
            parentElement(page.kids, i) # None =>
              hasToolsClass(nextElementSibling(page'.kids, i))]_vars

\* C21: once the zoom overlay has been closed, by whichever of its close
\* events, its key handler is registered no more, and no close event or
\* Escape key press has raised an error.
C21_OverlayGoneAfterClose ==
  /\ \A k \in keyHandlers : Overlay(k) \in Range(page.kids[Body])
  /\ overlayErrors = {}

\* a continuation of a copy click runs
CopyContinues == FetchSettles \/ WriteSettles \/ ToBlobCallback \/ WriteTextSettles

\* onunload has run and onload has not run since
Unloaded == loads > 0 /\ ~hostLoaded

\* C22: a continuation of a copy click that runs after onunload brings back
\* no tool container in the document, no style block and no observer, and
\* raises no error other than those the platform's answers cause in a loaded
\* extension as well (a null blob, a rejected or missing writeText).
C22_UnloadWithCopyInFlight ==
  [][(Unloaded /\ CopyContinues) =>
       /\ ContainersInDocument(page'.kids) = {}
       /\ ToolSlots(page'.kids) = ToolSlots(page.kids)
       /\ styles' = <<>>
       /\ page'.connected = {}
       /\ imageToolsObserver' = NoObs
       /\ errors' # errors =>
            copy.caps.toBlob = "null" \/ copy.caps.text \in {"reject", "absent"}]_vars

\* onunload has run while the handler of a copy click is suspended on the
\* canvas.toBlob callback
C22_Witness ==
  Unloaded /\ copy.pc = "toBlob" /\ copy.caps.toBlob = "blob"

\* the tool containers built for image i, wherever they are
Owned(kids, i) == Cardinality({s \in ToolSlots(kids) : kids[s[1]][s[2]][2] = i[2]})

\* C23: each handler checks and inserts in one step, so when the scans of
\* onload, of the command and of the timers and the observer callbacks target
\* an image that stays where the host has put it, the image has exactly one
\* tool container after each of them, and it is its next element sibling.
C23_OneContainerFromAllHandlers ==
  [][/\ ScanStep =>
          \A i \in ArticleImgs(page'.kids) :
            /\ Owned(page'.kids, i) = 1
            /\ nextElementSibling(page'.kids, i) = ToolNode(i, nextElementSibling(page'.kids, i)[3])
     /\ \A o \in ObsIds : ObserverCallback(o) =>
          \A i \in Covered(page.kids, page.records[o]) \cap Imgs :
            isConnected(page.kids, i) =>
              /\ Owned(page'.kids, i) = 1
              /\ nextElementSibling(page'.kids, i) = ToolNode(i, nextElementSibling(page'.kids, i)[3])]_vars

\* an image of the article has its one container, the command is registered
\* and a delayed re-run is pending: a further scan is about to target the
\* image again
C23_Witness ==
  /\ command
  /\ timer2 > 0
  /\ \E i \in Imgs : /\ parentElement(page.kids, i) = Article
                     /\ Owned(page.kids, i) = 1
                     /\ hasToolsClass(nextElementSibling(page.kids, i))

\* C24: when the first strategy of a save click has failed (link.click() did
\* not start a download), the handler has gone on to the second one, the
\* simulated context menu.
C24_SecondSaveStrategyRuns ==
  (download.tried # <<>> /\ ~download.got) => "contextmenu" \in Range(download.tried)

\* the canvas strategy of the click in flight has failed: toBlob threw, or
\* it delivered a blob and execCommand("copy") returned false
CanvasStrategyFailed ==
  /\ copy.caps.ctx /\ copy.caps.draw
  /\ \/ copy.caps.toBlob = "throw"
     \/ copy.caps.toBlob = "blob" /\ ~copy.caps.exec

\* C25: for one copy click the strategies run in order, each after the
\* previous one failed: the clipboard write only after the fetch succeeded,
\* fallbackCopyImage only after the fetch or the ClipboardItem write failed or
\* was unavailable and at most once, the URL-as-text write only after the
\* canvas strategy failed (toBlob threw, or execCommand returned false), and
\* the success indicator at most once.
C25_OrderedChain ==
  /\ copy.fallbacks <= 1
  /\ copy.shown <= 1
  /\ copy.shown = 1 => copy.pc = "done"
  /\ copy.pc = "writing" => copy.caps.fetch = "ok" /\ copy.fallbacks = 0
  /\ copy.fallbacks = 1 => copy.caps.fetch # "ok" \/ copy.caps.item # "ok"
  /\ copy.pc = "toBlob" => copy.fallbacks = 1 /\ copy.caps.ctx /\ copy.caps.draw
  /\ copy.pc = "writeText" => copy.fallbacks = 1 /\ CanvasStrategyFailed
  /\ clipboard = "url" => copy.fallbacks = 1 /\ CanvasStrategyFailed
  /\ clipboard = "image" /\ copy.fallbacks = 1 => copy.caps.toBlob = "blob" /\ copy.caps.exec

\* the last strategy is running after every earlier one has failed: the
\* fetch was rejected, the canvas gave a blob and execCommand returned false
C25_Witness ==
  /\ copy.pc = "writeText"
  /\ copy.caps.fetch = "reject"
  /\ copy.caps.toBlob = "blob"
  /\ ~copy.caps.exec

\* C25 as stated: the URL-as-text write runs only after execCommand("copy")
\* has failed.
C25_TextOnlyAfterExecCommand ==
  copy.pc = "writeText" => copy.caps.toBlob = "blob" /\ ~copy.caps.exec

\* the records queued for observer o are all records of tool containers
OwnRecords(D, o) == \A x \in DOMAIN D.records[o] : hasToolsClass(D.records[o][x])

\* C26: the records of the engine's own insertions end the chain of
\* callbacks: what an observer callback queues are records of the tool
\* containers it has inserted, at most one for each image without a container,
\* and a callback whose batch holds only such records inserts nothing and
\* queues nothing, so that no further callback follows.
C26_OwnRecordsEndTheChain ==
  [][\A o \in ObsIds : ObserverCallback(o) =>
       /\ OwnRecords(page', o)
       /\ Len(page'.records[o]) <= ToolCount(page'.kids) - ToolCount(page.kids)
       /\ ToolCount(page'.kids) - ToolCount(page.kids) <=
            Cardinality({i \in AllImgs : /\ parentElement(page.kids, i) # None
                                         /\ ~hasToolsClass(nextElementSibling(page.kids, i))})
       /\ OwnRecords(page, o) => page'.kids = page.kids /\ page'.records[o] = <<>>]_vars

\* the record of a container the engine has inserted for the image of its own
\* zoom overlay is waiting for the callback
C26_Witness ==
  \E o \in page.connected, k \in 1..MaxZooms :
    /\ page.records[o] = <<ToolNode(OverlayImg(k), ToolButtons)>>
    /\ nextElementSibling(page.kids, OverlayImg(k)) = ToolNode(OverlayImg(k), ToolButtons)

\* C27: the module variable imageToolsObserver agrees with the subscription:
\* it is null exactly when no observer is connected, and otherwise the one
\* connected observer is the one it holds.
C27_ObserverVariableConsistent ==
  /\ imageToolsObserver = NoObs => page.connected = {}
  /\ imageToolsObserver # NoObs => page.connected = {imageToolsObserver}

\* C28: at most one listener for imageTools:settings:changed is registered
\* on window, so one signal runs injectCustomStyles once.
C28_AtMostOneListener == listeners <= 1

\* C29: a run of initializeImageTools (the command, the delayed re-runs, the
\* run of onload) removes and replaces no container: a container that exists
\* before the run exists after it under the same parent with the same
\* buttons, and an image that has a container as its next element sibling
\* has the same one after the run, whatever the viewport is now.
C29_ScanKeepsContainers ==
  [][ScanStep =>
       /\ ToolCount(page'.kids) >= ToolCount(page.kids)
       /\ \A s \in ToolSlots(page.kids) :
            \E t \in ToolSlots(page'.kids) :
              /\ t[1] = s[1]
              /\ t[2] >= s[2]
              /\ page'.kids[t[1]][t[2]] = page.kids[s[1]][s[2]]
       /\ \A i \in AllImgs :
            hasToolsClass(nextElementSibling(page.kids, i)) =>
              nextElementSibling(page'.kids, i) = nextElementSibling(page.kids, i)]_vars

\* in the mobile build both delayed re-runs have run, one image of the
\* article carries a container built for the other device class, and another
\* one a container built for the present one
C29_Witness ==
  /\ rev = "mobile" /\ loads > 0 /\ command /\ timer1 = 0 /\ timer2 = 0
  /\ \E i, j \in Imgs :
       /\ parentElement(page.kids, i) = Article
       /\ parentElement(page.kids, j) = Article
       /\ hasToolsClass(nextElementSibling(page.kids, i))
       /\ nextElementSibling(page.kids, i)[3] # ToolButtons
       /\ nextElementSibling(page.kids, j) = ToolNode(j, ToolButtons)

\* C30: the pan stays within the limit of the present zoom level: each
\* component of the translation is at most (scale - 1) * 200 in absolute
\* value while the image is zoomed in, and 0 otherwise.
C30_PanWithinLimit ==
  \A k \in 1..MaxZooms :
    LET T == touch[k]
        maxPan == Max((T.currentScale - One) * PanPerEighth, 0)
    IN /\ -maxPan <= T.translateX /\ T.translateX <= maxPan
       /\ -maxPan <= T.translateY /\ T.translateY <= maxPan

\* C30, the scale and the reset: the scale stays within 0.5 and 5, the applied
\* transform is the one the variables hold, the translation is (0, 0)
\* whenever the scale is at most 1, and a touchstart of a single finger less
\* than 300 ms after the previous one leaves scale 1 and translation (0, 0).
C30_ScaleAndReset ==
  [][\A k \in 1..MaxZooms :
       LET T == touch'[k] IN
       /\ MinScale <= T.currentScale /\ T.currentScale <= MaxScale
       /\ T.applied = <<T.translateX, T.translateY, T.currentScale>>
       /\ T.currentScale <= One => T.translateX = 0 /\ T.translateY = 0
       /\ (/\ T.touches = 1 /\ touch[k].touches = 0
           /\ touch[k].lastSingle > 0
           /\ clock - touch[k].lastSingle < doubleTapDelay)
          => T.currentScale = One /\ T.translateX = 0 /\ T.translateY = 0]_vars

====
